---- MODULE Spec2Model ----
(***************************************************************************)
(* Model of tdparse/parsers.py: the three corpus parsers dong, semeval and *)
(* election, with the span resolution helpers get_offsets and              *)
(* fuzzy_target_match.                                                     *)
(*                                                                         *)
(* A Python string is a sequence of one-character strings.  Spans are the  *)
(* 0-based half-open (start, end) pairs of Python.                         *)
(***************************************************************************)
EXTENDS Integers, Sequences, FiniteSets, TLC

\* ------------------------------------------------------------------ bounds
MaxLines == 7
MaxSentences == 2
MaxEntities == 2
MaxAdditional == 2
MaxTextLen == 3
MaxTargetLen == 2

\* ------------------------------------------------------- strings of Python
Min(a, b) == IF a < b THEN a ELSE b
Max(a, b) == IF a > b THEN a ELSE b

\* \w of re, as far as the modelled strings go; the characters the input
\* strings are built from: a letter in both cases, the space, the apostrophe,
\* and two characters that are special in a regular expression
Digits == {"0", "1", "2", "3", "4", "5", "6", "7", "8", "9"}
WordChars == {"a", "A", "e", "i", "k", "p", "r", "s", "t", "x", "_"} \cup Digits
Alphabet == {"a", "A", " ", "'", ".", "("}

RECURSIVE StringsUpTo(_)
StringsUpTo(n) ==
    IF n = 0 THEN {<<>>}
    ELSE LET shorter == StringsUpTo(n - 1)
         IN  shorter \cup {Append(s, c) : s \in {t \in shorter : Len(t) = n - 1}, c \in Alphabet}

LowerChar(c) == IF c = "A" THEN "a" ELSE c
Lower(s) == [i \in 1..Len(s) |-> LowerChar(s[i])]

\* s[from:to] of Python, negative indices counted from the end
SliceIndex(n, i) == IF i < 0 THEN Max(n + i, 0) ELSE Min(i, n)
Slice(s, from, to) ==
    LET lo == SliceIndex(Len(s), from)
        hi == SliceIndex(Len(s), to)
    IN  IF lo >= hi THEN <<>> ELSE SubSeq(s, lo + 1, hi)

\* str.strip(): leading and trailing whitespace removed
RECURSIVE Strip(_)
Strip(s) ==
    IF s = <<>> THEN s
    ELSE IF Head(s) = " " THEN Strip(Tail(s))
    ELSE IF s[Len(s)] = " " THEN Strip(SubSeq(s, 1, Len(s) - 1))
    ELSE s

\* len(s.split()): the number of maximal runs of non-whitespace
NumWords(s) ==
    Cardinality({i \in 1..Len(s) : s[i] # " " /\ (i = 1 \/ s[i - 1] = " ")})

\* ''.join(s.split()) and s.replace(' ', ''): every space removed
RemoveSpaces(s) == SelectSeq(s, LAMBDA c : c # " ")

\* s.replace(" '", ''): every space-apostrophe pair removed, left to right
RECURSIVE RemoveSpaceQuote(_)
RemoveSpaceQuote(s) ==
    IF Len(s) < 2 THEN s
    ELSE IF s[1] = " " /\ s[2] = "'" THEN RemoveSpaceQuote(SubSeq(s, 3, Len(s)))
    ELSE <<s[1]>> \o RemoveSpaceQuote(Tail(s))

\* str(n) for n >= 0
DigitChar(d) == <<"0", "1", "2", "3", "4", "5", "6", "7", "8", "9">>[d + 1]
RECURSIVE Str(_)
Str(n) == IF n < 10 THEN <<DigitChar(n)>> ELSE Str(n \div 10) \o <<DigitChar(n % 10)>>

\* int(s): an optional sign and decimal digits, anything else is a ValueError
DigitVal(c) == CHOOSE d \in 0..9 : DigitChar(d) = c
IsIntLiteral(s) ==
    LET body == IF s # <<>> /\ Head(s) \in {"-", "+"} THEN Tail(s) ELSE s
    IN  body # <<>> /\ \A i \in 1..Len(body) : body[i] \in Digits
RECURSIVE DecimalVal(_)
DecimalVal(s) ==
    IF s = <<>> THEN 0 ELSE 10 * DecimalVal(SubSeq(s, 1, Len(s) - 1)) + DigitVal(s[Len(s)])
Int_(s) == IF Head(s) = "-" THEN 0 - DecimalVal(Tail(s))
           ELSE IF Head(s) = "+" THEN DecimalVal(Tail(s))
           ELSE DecimalVal(s)

\* ------------------------------------------------- regular expressions (re)
\* A pattern is a sequence of elements: the class [^\w], or one character of
\* the pattern string.  In a pattern '.' matches any character and '(' opens
\* a group that is never closed, which re refuses to compile.
NonWord == "[^\\w]"
CompileError(pattern) == \E j \in 1..Len(pattern) : pattern[j] = "("
ElemMatches(e, c) ==
    IF e = NonWord THEN c \notin WordChars
    ELSE IF e = "." THEN TRUE
    ELSE e = c
MatchesAt(pattern, text, pos) ==
    /\ pos + Len(pattern) <= Len(text)
    /\ \A j \in 1..Len(pattern) : ElemMatches(pattern[j], text[pos + j])

\* re.finditer(pattern, text): the spans of the non-overlapping matches, left
\* to right; an empty pattern matches once at every position
RECURSIVE FinditerFrom(_, _, _)
FinditerFrom(pattern, text, pos) ==
    IF pos > Len(text) THEN <<>>
    ELSE IF MatchesAt(pattern, text, pos)
         THEN <<<<pos, pos + Len(pattern)>>>>
              \o FinditerFrom(pattern, text, pos + Max(Len(pattern), 1))
         ELSE FinditerFrom(pattern, text, pos + 1)
Finditer(pattern, text) == FinditerFrom(pattern, text, 0)

\* ------------------------------------------------------------------- state
VARIABLES
    is_file,          \* dong: os.path.isfile(file_path)
    lines,            \* dong: the lines of the file read so far
    sent_dict,        \* dong: the record being filled
    sentiment_data,   \* dong: the TargetCollection being built
    dong_result,      \* dong: "idle", "start", "reading", "returned" or the exception
    root_tag,         \* semeval: the tag of the document's root element
    sentences,        \* semeval: the sentence elements iterated so far
    all_aspect_term_data, \* semeval: the TargetCollection being built
    semeval_result,   \* semeval: "idle", "start", "parsing", "returned" or the exception
    call,             \* a single call of get_offsets or fuzzy_target_match: its arguments
    call_result,      \* ... and what it returned or raised
    tweet_id,         \* election.parse_tweet: the tweet's id
    tweet_text,       \* election.parse_tweet: tweet_data['content']
    include_dnr,      \* election: flag
    include_additional, \* election: flag
    additional_is_dict, \* election: isinstance(anno_data['additional_items'], dict)
    target_instances, \* election.parse_tweet: the Targets built so far
    target_ids,       \* election.parse_tweet: the entity ids seen so far
    data_dict,        \* election.parse_tweet: the dictionary the loops fill
    additional_items, \* election.parse_tweet: the additional items iterated so far
    election_result   \* election.parse_tweet: "idle", "entities", "additional",
                      \* "returned" or the exception raised

dongVars == <<is_file, lines, sent_dict, sentiment_data, dong_result>>
semevalVars == <<root_tag, sentences, all_aspect_term_data, semeval_result>>
callVars == <<call, call_result>>
electionVars == <<tweet_id, tweet_text, include_dnr, include_additional, additional_is_dict,
                  target_instances, target_ids, data_dict, additional_items,
                  election_result>>
vars == <<dongVars, semevalVars, callVars, electionVars>>

DongIdle ==
    /\ is_file = FALSE
    /\ lines = <<>>
    /\ sent_dict = <<>>
    /\ sentiment_data = <<>>
    /\ dong_result = "idle"

SemevalIdle ==
    /\ root_tag = "sentences"
    /\ sentences = <<>>
    /\ all_aspect_term_data = <<>>
    /\ semeval_result = "idle"

Pending == [kind |-> "pending", spans |-> <<>>]

CallIdle ==
    /\ call = [function |-> "none"]
    /\ call_result = Pending

ElectionIdle ==
    /\ tweet_id = <<>>
    /\ tweet_text = <<>>
    /\ include_dnr = FALSE
    /\ include_additional = FALSE
    /\ additional_is_dict = FALSE
    /\ target_instances = <<>>
    /\ target_ids = <<>>
    /\ data_dict = <<>>
    /\ additional_items = <<>>
    /\ election_result = "idle"

\* TargetCollection.add and len(): an ordered collection of Targets
add(collection, target) == Append(collection, target)

\* ---------------------------------------------------------------- dong
\* a range that lets the label 2 through
sentiment_range_wide == {-1, 0, 1, 2}
sentiment_range == {-1, 0, 1}

DongTexts == {<<"a">>, <<"A", "a">>, <<"a", " ", "a">>, <<" ", "a", ".">>}
DongTargets == {<<"a">>, <<"A">>, <<"a", " ", "a">>, <<".">>, <<"(">>}
DongSentiments == {<<"0">>, <<"1">>, <<"-", "1">>, <<"1", " ">>, <<"2">>, <<"a">>}

\* the spans dong computes for one record
DongOffsets(text, target) ==
    Finditer(target, text)
    \o (IF NumWords(target) > 1 THEN Finditer(RemoveSpaces(target), text) ELSE <<>>)

DongInit ==
    /\ is_file \in BOOLEAN
    /\ lines = <<>>
    /\ sent_dict = <<>>
    /\ sentiment_data = <<>>
    /\ dong_result = "start"
    /\ SemevalIdle /\ CallIdle /\ ElectionIdle

\* the path is checked and the file opened
DongOpen ==
    /\ dong_result = "start"
    /\ dong_result' = IF is_file THEN "reading" ELSE "FileNotFoundError"
    /\ UNCHANGED <<is_file, lines, sent_dict, sentiment_data>>

DongTextLine(line) ==
    /\ dong_result = "reading"
    /\ Len(lines) < MaxLines
    /\ (Len(lines) + 1) % 3 = 1
    /\ lines' = Append(lines, line)
    /\ sent_dict' = ("text" :> Strip(line)) @@ sent_dict
    /\ UNCHANGED <<is_file, sentiment_data, dong_result>>

DongTargetLine(line) ==
    /\ dong_result = "reading"
    /\ Len(lines) < MaxLines
    /\ (Len(lines) + 1) % 3 = 2
    /\ lines' = Append(lines, line)
    /\ sent_dict' = ("target" :> Strip(line)) @@ sent_dict
    /\ UNCHANGED <<is_file, sentiment_data, dong_result>>

DongSentimentLine(line) ==
    /\ dong_result = "reading"
    /\ Len(lines) < MaxLines
    /\ (Len(lines) + 1) % 3 = 0
    /\ lines' = Append(lines, line)
    /\ UNCHANGED is_file
    /\ LET stripped == Strip(line)
           text == Lower(sent_dict["text"])
           target == Lower(sent_dict["target"])
       IN  IF ~IsIntLiteral(stripped) \/ Int_(stripped) \notin sentiment_range
           THEN /\ dong_result' = "ValueError"
                /\ UNCHANGED <<sent_dict, sentiment_data>>
           ELSE IF CompileError(target)
           THEN /\ dong_result' = "re.error"
                /\ sent_dict' = ("sentiment" :> Int_(stripped)) @@ sent_dict
                /\ UNCHANGED sentiment_data
           ELSE /\ sentiment_data' =
                      add(sentiment_data,
                          ("sentiment" :> Int_(stripped))
                          @@ ("spans" :> DongOffsets(text, target))
                          @@ ("target_id" :> Str(Len(sentiment_data)))
                          @@ sent_dict)
                /\ sent_dict' = <<>>
                /\ UNCHANGED dong_result

DongReturn ==
    /\ dong_result = "reading"
    /\ dong_result' = "returned"
    /\ UNCHANGED <<is_file, lines, sent_dict, sentiment_data>>

DongNext ==
    \/ DongOpen /\ UNCHANGED <<semevalVars, callVars, electionVars>>
    \/ \E line \in DongTexts : DongTextLine(line) /\ UNCHANGED <<semevalVars, callVars, electionVars>>
    \/ \E line \in DongTargets : DongTargetLine(line) /\ UNCHANGED <<semevalVars, callVars, electionVars>>
    \/ \E line \in DongSentiments : DongSentimentLine(line) /\ UNCHANGED <<semevalVars, callVars, electionVars>>
    \/ DongReturn /\ UNCHANGED <<semevalVars, callVars, electionVars>>

SpecDong == DongInit /\ [][DongNext]_vars

\* ---------------------------------------------------------------- semeval
sentiment_mapper == [conflict |-> -2, negative |-> -1, neutral |-> 0, positive |-> 1]

NoIndex == -1

\* the position of the last child with the given tag (0-based), as the scan
\* of the sentence's children leaves it
LastChildIndex(sentence, tag) ==
    LET found == {i \in 1..Len(sentence.children) : sentence.children[i].tag = tag}
    IN  IF found = {} THEN NoIndex ELSE (CHOOSE i \in found : \A j \in found : j <= i) - 1

text_index(sentence) == LastChildIndex(sentence, "text")
\* the test "not text_index", which also takes the first child for missing
TextIndexIsFalsy(index) == index = NoIndex \/ index = 0
TextIndexIsNone(index) == index = NoIndex

\* extract_aspect_terms raises KeyError on a polarity missing from the mapper
PolarityError(sentence) ==
    \E i \in 1..Len(sentence.children) :
        /\ sentence.children[i].tag = "aspectTerms"
        /\ \E j \in 1..Len(sentence.children[i].terms) :
               sentence.children[i].terms[j].polarity \notin DOMAIN sentiment_mapper

extract_aspect_terms(aspect_terms, sentence_id) ==
    [i \in 1..Len(aspect_terms) |->
        [target_id |-> sentence_id \o Str(i - 1),
         target    |-> aspect_terms[i].term,
         sentiment |-> sentiment_mapper[aspect_terms[i].polarity],
         spans     |-> <<<<aspect_terms[i].from, aspect_terms[i].to>>>>]]

add_text(aspect_data, text) ==
    [i \in 1..Len(aspect_data) |-> ("text" :> text) @@ aspect_data[i]]

\* the loop that adds the sentence's Targets to the collection, in order
RECURSIVE AddAll(_, _)
AddAll(collection, targets) ==
    IF targets = <<>> THEN collection
    ELSE AddAll(add(collection, Head(targets)), Tail(targets))

\* the input documents
TextChild == [tag |-> "text", text |-> <<"a">>, terms |-> <<>>]
AspectChild(terms) == [tag |-> "aspectTerms", text |-> <<>>, terms |-> terms]
Term(polarity) == [term |-> <<"a">>, polarity |-> polarity, from |-> <<"0">>, to |-> <<"1">>]
TermLists ==
    { <<>>,
      <<Term("positive")>>,
      <<Term("negative"), Term("conflict")>>,
      <<Term("sometimes")>>,
      [i \in 1..11 |-> Term("neutral")] }
ChildLists ==
    {<<>>, <<TextChild>>}
    \cup {<<AspectChild(t)>> : t \in TermLists}
    \cup {<<TextChild, AspectChild(t)>> : t \in TermLists}
    \cup {<<AspectChild(t), TextChild>> : t \in TermLists}
SentenceIds == {<<"1">>, <<"1", "1">>, <<"2">>}
SentenceElements == [id : SentenceIds, children : ChildLists]

SemevalInit ==
    /\ root_tag \in {"sentences", "sentence"}
    /\ sentences = <<>>
    /\ all_aspect_term_data = <<>>
    /\ semeval_result = "start"
    /\ DongIdle /\ CallIdle /\ ElectionIdle

SemevalRoot ==
    /\ semeval_result = "start"
    /\ semeval_result' = IF root_tag # "sentences" THEN "ValueError" ELSE "parsing"
    /\ UNCHANGED <<root_tag, sentences, all_aspect_term_data>>

SemevalSentence(sentence) ==
    /\ semeval_result = "parsing"
    /\ Len(sentences) < MaxSentences
    /\ sentences' = Append(sentences, sentence)
    /\ LET aspect_index == LastChildIndex(sentence, "aspectTerms")
       IN  IF PolarityError(sentence)
           THEN semeval_result' = "KeyError" /\ UNCHANGED all_aspect_term_data
           ELSE IF aspect_index = NoIndex
           THEN UNCHANGED <<semeval_result, all_aspect_term_data>>
           ELSE IF TextIndexIsNone(text_index(sentence))
           THEN semeval_result' = "ValueError" /\ UNCHANGED all_aspect_term_data
           ELSE LET aspect_term_data ==
                        extract_aspect_terms(sentence.children[aspect_index + 1].terms,
                                             sentence.id)
                    sentence_text == sentence.children[text_index(sentence) + 1].text
                IN  /\ all_aspect_term_data' =
                           AddAll(all_aspect_term_data, add_text(aspect_term_data, sentence_text))
                    /\ UNCHANGED semeval_result
    /\ UNCHANGED root_tag

SemevalReturn ==
    /\ semeval_result = "parsing"
    /\ semeval_result' = "returned"
    /\ UNCHANGED <<root_tag, sentences, all_aspect_term_data>>

SemevalNext ==
    \/ SemevalRoot /\ UNCHANGED <<dongVars, callVars, electionVars>>
    \/ \E sentence \in SentenceElements : SemevalSentence(sentence) /\ UNCHANGED <<dongVars, callVars, electionVars>>
    \/ SemevalReturn /\ UNCHANGED <<dongVars, callVars, electionVars>>

SpecSemeval == SemevalInit /\ [][SemevalNext]_vars

\* ---------------------------------------------------------------- election
\* get_offsets: the hint offset, then one to the left, then one to the right
\* the right neighbour tried before the left one
offset_shifts_right_first == <<0, 1, -1>>
offset_shifts == <<0, -1, 1>>

RECURSIVE GetOffsetsShift(_, _, _, _)
GetOffsetsShift(from_offset, text, target, k) ==
    IF k > Len(offset_shifts) THEN [kind |-> "ValueError", spans |-> <<>>]
    ELSE LET from_offset_shift == from_offset + offset_shifts[k]
             to_offset == from_offset_shift + Len(target)
             offset_text == Lower(Slice(text, from_offset_shift, to_offset))
         IN  IF offset_text = Lower(target)
             THEN [kind |-> "spans", spans |-> <<<<from_offset_shift, to_offset>>>>]
             ELSE GetOffsetsShift(from_offset, text, target, k + 1)

get_offsets(entity, text, target) == GetOffsetsShift(entity.offset, text, target, 1)

\* fuzzy_target_match: the six search patterns, in priority order
target_searches(low_target) ==
    << low_target,
       <<NonWord>> \o low_target,
       <<NonWord>> \o low_target \o <<NonWord>>,
       low_target \o <<NonWord>>,
       RemoveSpaces(low_target),
       RemoveSpaceQuote(low_target) >>

\* the tweets and (tweet, target) pairs whose unresolved items are skipped
Tweet81211671026352128 ==
    <<"8", "1", "2", "1", "1", "6", "7", "1", "0", "2", "6", "3", "5", "2", "1", "2", "8">>
Tweet78689580104290305 ==
    <<"7", "8", "6", "8", "9", "5", "8", "0", "1", "0", "4", "2", "9", "0", "3", "0", "5">>
Tweet81209490499960832 ==
    <<"8", "1", "2", "0", "9", "4", "9", "0", "4", "9", "9", "9", "6", "0", "8", "3", "2">>
Tweet75270720671973376 ==
    <<"7", "5", "2", "7", "0", "7", "2", "0", "6", "7", "1", "9", "7", "3", "3", "7", "6">>
Tweet65855178264686592 ==
    <<"6", "5", "8", "5", "5", "1", "7", "8", "2", "6", "4", "6", "8", "6", "5", "9", "2">>
kippers == <<"k", "i", "p", "p", "e", "r", "s">>
tax == <<"t", "a", "x">>

Unresolvable(id, target) ==
    \/ id \in {Tweet81211671026352128, Tweet78689580104290305, Tweet81209490499960832}
    \/ id = Tweet75270720671973376 /\ target = kippers
    \/ id = Tweet65855178264686592 /\ target = tax

RECURSIVE FuzzySearch(_, _, _, _, _)
FuzzySearch(searches, text, target, id, k) ==
    IF k > Len(searches)
    THEN IF Unresolvable(id, target) THEN [kind |-> "None", spans |-> <<>>]
         ELSE [kind |-> "ValueError", spans |-> <<>>]
    ELSE IF CompileError(searches[k]) THEN [kind |-> "re.error", spans |-> <<>>]
    ELSE LET target_matches == Finditer(searches[k], Lower(text))
         IN  IF Len(target_matches) = 1
             THEN [kind |-> "spans", spans |-> target_matches]
             ELSE FuzzySearch(searches, text, target, id, k + 1)

fuzzy_target_match(text, target, id) ==
    FuzzySearch(target_searches(Lower(target)), text, target, id, 1)

\* --- get_offsets and fuzzy_target_match on their own
Texts == StringsUpTo(MaxTextLen)
Targets == StringsUpTo(MaxTargetLen) \ {<<>>}
Hints == 0..(MaxTextLen + 1)
TweetIds == {<<"1">>, Tweet81211671026352128, Tweet75270720671973376,
             Tweet65855178264686592}

OffsetsInit ==
    /\ call \in [function : {"get_offsets"}, text : Texts, target : Targets,
                 offset : Hints, id : {<<"1">>}]
    /\ call_result = Pending
    /\ DongIdle /\ SemevalIdle /\ ElectionIdle

CallGetOffsets ==
    /\ call.function = "get_offsets"
    /\ call_result = Pending
    /\ call_result' = get_offsets([offset |-> call.offset], call.text, call.target)
    /\ UNCHANGED call

OffsetsNext == CallGetOffsets /\ UNCHANGED <<dongVars, semevalVars, electionVars>>

SpecOffsets == OffsetsInit /\ [][OffsetsNext]_vars

FuzzyInit ==
    /\ call \in [function : {"fuzzy_target_match"}, text : Texts,
                 target : Targets \cup {tax, kippers}, offset : {0}, id : TweetIds]
    /\ call_result = Pending
    /\ DongIdle /\ SemevalIdle /\ ElectionIdle

CallFuzzyTargetMatch ==
    /\ call.function = "fuzzy_target_match"
    /\ call_result = Pending
    /\ call_result' = fuzzy_target_match(call.text, call.target, call.id)
    /\ UNCHANGED call

FuzzyNext == CallFuzzyTargetMatch /\ UNCHANGED <<dongVars, semevalVars, electionVars>>

SpecFuzzy == FuzzyInit /\ [][FuzzyNext]_vars

\* --- parse_tweet
ElectionTexts == {<<"a", " ", "A">>, <<".", "'", "a">>}
EntityTargets == {<<"a">>, <<"'", "A">>}
EntityOffsets == 0..2
EntityIds == {1, 3}
NoLabel == "<missing>"
EntityLabels == {"positive", "doesnotapply", NoLabel}
AdditionalTargets == {<<"a">>, <<".">>, <<"(">>, <<"t">>}
AdditionalLabels == {"negative", "neutral"}
ElectionTweetIds == {<<"1">>, Tweet81211671026352128}

\* max() of a non-empty list of integers
MaxOf(ids) == CHOOSE m \in {ids[i] : i \in 1..Len(ids)} : \A i \in 1..Len(ids) : ids[i] <= m

\* the sentiment left as the previous iteration set it
AdditionalDictStaleSentiment(dict, span, target, sentiment, text, id, target_id) ==
    ("target_id" :> id \o <<"#">> \o Str(target_id))
    @@ ("sentence_id" :> id)
    @@ ("text" :> text)
    @@ ("target" :> target)
    @@ ("spans" :> <<span>>)
    @@ dict

\* the six assignments to data_dict for an additional item
AdditionalDict(dict, span, target, sentiment, text, id, target_id) ==
    ("target_id" :> id \o <<"#">> \o Str(target_id))
    @@ ("sentence_id" :> id)
    @@ ("text" :> text)
    @@ ("sentiment" :> sentiment)
    @@ ("target" :> target)
    @@ ("spans" :> <<span>>)
    @@ dict

ElectionInit ==
    /\ tweet_id \in ElectionTweetIds
    /\ tweet_text \in ElectionTexts
    /\ include_dnr \in BOOLEAN
    /\ include_additional \in BOOLEAN
    /\ additional_is_dict \in BOOLEAN
    /\ target_instances = <<>>
    /\ target_ids = <<>>
    /\ data_dict = <<>>
    /\ additional_items = <<>>
    /\ election_result = "entities"
    /\ DongIdle /\ SemevalIdle /\ CallIdle

\* one iteration of the loop over tweet_data['entities']
ElectionEntity(entity, label) ==
    /\ election_result = "entities"
    /\ Len(target_ids) < MaxEntities
    /\ target_ids' = Append(target_ids, entity.id)
    /\ LET offsets == get_offsets(entity, tweet_text, entity.entity)
           with_ids == ("sentence_id" :> tweet_id)
                       @@ ("target_id" :> tweet_id \o <<"#">> \o Str(entity.id))
                       @@ ("target" :> entity.entity)
                       @@ ("spans" :> offsets.spans)
       IN  IF offsets.kind = "ValueError"
           THEN /\ election_result' = "ValueError"
                /\ data_dict' = <<>>
                /\ UNCHANGED target_instances
           ELSE IF label = NoLabel
           THEN /\ election_result' = "KeyError"
                /\ data_dict' = with_ids
                /\ UNCHANGED target_instances
           ELSE IF label = "doesnotapply" /\ ~include_dnr
           THEN /\ data_dict' = ("sentiment" :> label) @@ with_ids
                /\ UNCHANGED <<target_instances, election_result>>
           ELSE /\ data_dict' = ("text" :> tweet_text) @@ ("sentiment" :> label) @@ with_ids
                /\ target_instances' = Append(target_instances, data_dict')
                /\ UNCHANGED election_result
    /\ UNCHANGED <<tweet_id, tweet_text, include_dnr, include_additional,
                   additional_is_dict, additional_items>>

\* the loop over the entities ends
ElectionEntitiesDone ==
    /\ election_result = "entities"
    /\ election_result' = IF include_additional /\ additional_is_dict
                          THEN "additional" ELSE "returned"
    /\ UNCHANGED <<tweet_id, tweet_text, include_dnr, include_additional,
                   additional_is_dict, target_instances, target_ids, data_dict,
                   additional_items>>

\* one iteration of the loop over anno_data['additional_items'].items()
ElectionAdditional(target, sentiment) ==
    /\ election_result = "additional"
    /\ Len(additional_items) < MaxAdditional
    /\ \A i \in 1..Len(additional_items) : additional_items[i].target # target
    /\ additional_items' = Append(additional_items, [target |-> target, sentiment |-> sentiment])
    /\ LET target_matches == fuzzy_target_match(tweet_text, target, tweet_id)
       IN  IF target_matches.kind \in {"ValueError", "re.error"}
           THEN /\ election_result' = target_matches.kind
                /\ UNCHANGED <<target_instances, target_ids, data_dict>>
           ELSE IF target_matches.kind = "None"
           THEN UNCHANGED <<target_instances, target_ids, data_dict, election_result>>
           ELSE IF target_ids = <<>>
           THEN /\ election_result' = "ValueError"
                /\ UNCHANGED <<target_instances, target_ids, data_dict>>
           ELSE LET target_id == MaxOf(target_ids) + 1
                IN  /\ target_ids' = Append(target_ids, target_id)
                    /\ data_dict' = AdditionalDict(data_dict, target_matches.spans[1], target,
                                                   sentiment, tweet_text, tweet_id, target_id)
                    /\ target_instances' = Append(target_instances, data_dict')
                    /\ UNCHANGED election_result
    /\ UNCHANGED <<tweet_id, tweet_text, include_dnr, include_additional, additional_is_dict>>

ElectionReturn ==
    /\ election_result = "additional"
    /\ election_result' = "returned"
    /\ UNCHANGED <<tweet_id, tweet_text, include_dnr, include_additional,
                   additional_is_dict, target_instances, target_ids, data_dict,
                   additional_items>>

Entities == [entity : EntityTargets, offset : EntityOffsets, id : EntityIds]

ElectionNext ==
    \/ \E entity \in Entities, label \in EntityLabels :
          ElectionEntity(entity, label) /\ UNCHANGED <<dongVars, semevalVars, callVars>>
    \/ ElectionEntitiesDone /\ UNCHANGED <<dongVars, semevalVars, callVars>>
    \/ \E target \in AdditionalTargets, sentiment \in AdditionalLabels :
          ElectionAdditional(target, sentiment) /\ UNCHANGED <<dongVars, semevalVars, callVars>>
    \/ ElectionReturn /\ UNCHANGED <<dongVars, semevalVars, callVars>>

SpecElection == ElectionInit /\ [][ElectionNext]_vars

\* ------------------------------------------------------------------ claims
Last(seq) == seq[Len(seq)]

\* the characters of text between start and end, when the span lies in text
SpanText(text, span) == Slice(text, span[1], span[2])
SpansEqualTarget(target) ==
    \A j \in 1..Len(target.spans) :
        Lower(SpanText(target.text, target.spans[j])) = Lower(target.target)

\* C1: in every Target a parser produced, the text at each of its spans,
\* lower-cased, is the target lower-cased
C1_SpansEqualTarget ==
    /\ \A i \in 1..Len(sentiment_data) : SpansEqualTarget(sentiment_data[i])
    /\ \A i \in 1..Len(target_instances) : SpansEqualTarget(target_instances[i])

\* C2: dong returns a collection only for a file of 3n lines
C2_IncompleteFileFails == dong_result = "returned" => Len(lines) % 3 = 0

SentimentOf(line) == Int_(Strip(line))
ValidSentimentLine(line) ==
    IsIntLiteral(Strip(line)) /\ SentimentOf(line) \in {-1, 0, 1}

\* C3: once dong has consumed a file of 3n lines whose sentiment lines are all
\* in {-1, 0, 1}, it holds n Targets, the k-th built from lines 3k+1, 3k+2 and
\* 3k+3 with target_id str(k), and no exception was raised
C3_OneTargetPerTriple ==
    (/\ dong_result \notin {"idle", "start"}
     /\ is_file
     /\ Len(lines) % 3 = 0
     /\ \A k \in 0..(Len(lines) \div 3 - 1) : ValidSentimentLine(lines[3 * k + 3]))
    => /\ dong_result \in {"reading", "returned"}
       /\ Len(sentiment_data) = Len(lines) \div 3
       /\ \A k \in 0..(Len(lines) \div 3 - 1) :
             /\ sentiment_data[k + 1].text = Strip(lines[3 * k + 1])
             /\ sentiment_data[k + 1].target = Strip(lines[3 * k + 2])
             /\ sentiment_data[k + 1].sentiment = SentimentOf(lines[3 * k + 3])
             /\ sentiment_data[k + 1].target_id = Str(k)

OutOfRangeLine(line) ==
    IsIntLiteral(Strip(line)) /\ SentimentOf(line) \notin {-1, 0, 1}

\* C4: when dong reads a sentiment line holding an integer outside {-1, 0, 1}
\* it raises ValueError and returns nothing, and every Target it collects has
\* its sentiment in {-1, 0, 1}
C4_SentimentInRange ==
    /\ (\E k \in 0..(Len(lines) \div 3 - 1) : OutOfRangeLine(lines[3 * k + 3]))
           => dong_result = "ValueError"
    /\ \A i \in 1..Len(sentiment_data) : sentiment_data[i].sentiment \in {-1, 0, 1}

C4_Witness ==
    /\ dong_result = "ValueError"
    /\ Len(sentiment_data) >= 1
    /\ Len(lines) = 6
    /\ OutOfRangeLine(lines[6])

Distinct(seq) == \A i, j \in 1..Len(seq) : i # j => seq[i] # seq[j]

\* C5: when the sentence ids of a semeval document are pairwise distinct, so
\* are the target_ids of the Targets added to the collection
C5_DistinctTargetIds ==
    Distinct([i \in 1..Len(sentences) |-> sentences[i].id])
    => Distinct([i \in 1..Len(all_aspect_term_data) |-> all_aspect_term_data[i].target_id])

HasChild(sentence, tag) ==
    \E i \in 1..Len(sentence.children) : sentence.children[i].tag = tag
KnownPolarities(sentence) ==
    \A i \in 1..Len(sentence.children) : \A j \in 1..Len(sentence.children[i].terms) :
        sentence.children[i].terms[j].polarity \in {"conflict", "negative", "neutral", "positive"}

\* C6: a sentence without aspectTerms adds no Target and raises nothing, with
\* or without a text child; a sentence with aspectTerms (of known polarities)
\* raises ValueError exactly when it has no text child
C6_MissingText ==
    [][Len(sentences') = Len(sentences) + 1 =>
          LET sentence == Last(sentences')
          IN  /\ ~HasChild(sentence, "aspectTerms")
                    => /\ semeval_result' = "parsing"
                       /\ all_aspect_term_data' = all_aspect_term_data
              /\ (HasChild(sentence, "aspectTerms") /\ KnownPolarities(sentence))
                    => /\ semeval_result' \in {"parsing", "ValueError"}
                       /\ semeval_result' = "ValueError" <=> ~HasChild(sentence, "text")
                       /\ semeval_result' = "ValueError"
                             => all_aspect_term_data' = all_aspect_term_data]_vars

C6_Witness ==
    /\ semeval_result = "ValueError"
    /\ Len(sentences) = 2
    /\ ~HasChild(sentences[1], "aspectTerms") /\ ~HasChild(sentences[1], "text")
    /\ HasChild(sentences[2], "aspectTerms") /\ ~HasChild(sentences[2], "text")
    /\ KnownPolarities(sentences[2])

\* the target, ignoring case, stands in text at the 0-based position start
OccursAt(text, target, start) ==
    /\ start >= 0
    /\ start + Len(target) <= Len(text)
    /\ \A j \in 1..Len(target) : LowerChar(text[start + j]) = LowerChar(target[j])

\* C7: get_offsets returns the one span starting at the first of h, h-1, h+1
\* where the target stands in the text, which lies inside the text, and
\* raises ValueError when the target stands at none of the three
C7_HintShift ==
    (call.function = "get_offsets" /\ call_result # Pending) =>
        LET h == call.offset
            candidates == <<h, h - 1, h + 1>>
            hits == {k \in 1..3 : OccursAt(call.text, call.target, candidates[k])}
        IN  IF hits = {} THEN call_result.kind = "ValueError"
            ELSE LET start == candidates[CHOOSE k \in hits : \A m \in hits : k <= m]
                 IN  /\ call_result.kind = "spans"
                     /\ call_result.spans = <<<<start, start + Len(call.target)>>>>
                     /\ 0 <= start /\ start + Len(call.target) <= Len(call.text)

C7_Witness ==
    /\ call.function = "get_offsets"
    /\ call.offset = 0
    /\ call_result.kind = "spans"
    /\ call_result.spans[1][1] = 1

LiteralOccurrences(text, target) ==
    {start \in 0..Len(text) : start + Len(target) <= Len(text)
                              /\ SubSeq(text, start + 1, start + Len(target)) = target}

\* C8: fuzzy_target_match returns the single match of the first of its six
\* patterns that has exactly one match; it returns None or raises its error
\* only when no pattern has exactly one match; and a target that occurs once
\* in the text, both lower-cased, resolves to the span of that occurrence
C8_FirstSingleMatch ==
    (call.function = "fuzzy_target_match" /\ call_result # Pending) =>
        LET low_text == Lower(call.text)
            low_target == Lower(call.target)
            searches == target_searches(low_target)
            single == {k \in 1..Len(searches) : Len(Finditer(searches[k], low_text)) = 1}
            occurrences == LiteralOccurrences(low_text, low_target)
        IN  /\ call_result.kind \in {"spans", "None", "ValueError"}
            /\ call_result.kind = "spans" <=> single # {}
            /\ single # {} =>
                  call_result.spans =
                      Finditer(searches[CHOOSE k \in single : \A m \in single : k <= m], low_text)
            /\ Cardinality(occurrences) = 1 =>
                  /\ call_result.kind = "spans"
                  /\ \E start \in occurrences :
                        call_result.spans = <<<<start, start + Len(low_target)>>>>

\* C9: every additional item that fuzzy_target_match resolves to a span adds a
\* Target whose id number is one more than the largest entity id seen so far
\* for the tweet, and the target_ids of one tweet are pairwise distinct when
\* the ids of its auto-detected entities are
C9_NextEntityId ==
    [][(/\ Len(additional_items') = Len(additional_items) + 1
        /\ fuzzy_target_match(tweet_text, Last(additional_items').target, tweet_id).kind = "spans")
       => /\ Len(target_instances') = Len(target_instances) + 1
          /\ Len(target_ids') = Len(target_ids) + 1
          /\ \A i \in 1..Len(target_ids) : target_ids[i] < Last(target_ids')
          /\ \E i \in 1..Len(target_ids) : Last(target_ids') = target_ids[i] + 1
          /\ Last(target_instances').target_id = tweet_id \o <<"#">> \o Str(Last(target_ids'))
          /\ Distinct(SubSeq(target_ids, 1, Len(target_ids)))
                => Distinct([i \in 1..Len(target_instances') |-> target_instances'[i].target_id])]_vars

\* C10: a Target built from an additional item has exactly the six fields,
\* each computed from that item and its tweet: nothing an earlier entity or an
\* earlier additional item left in data_dict shows in it
C10_NoStaleField ==
    [][(election_result = "additional" /\ Len(target_instances') = Len(target_instances) + 1) =>
          LET item == Last(additional_items')
              built == Last(target_instances')
          IN  /\ DOMAIN built = {"spans", "target", "sentiment", "text", "sentence_id", "target_id"}
              /\ built.spans = fuzzy_target_match(tweet_text, item.target, tweet_id).spans
              /\ Len(built.spans) = 1
              /\ built.target = item.target
              /\ built.sentiment = item.sentiment
              /\ built.text = tweet_text
              /\ built.sentence_id = tweet_id
              /\ built.target_id = tweet_id \o <<"#">> \o Str(Last(target_ids'))]_vars

\* an additional item's Target was built after the only entity was skipped
C10_Witness ==
    /\ election_result = "additional"
    /\ ~include_dnr
    /\ Len(target_ids) = 2
    /\ Len(additional_items) = 1
    /\ Len(target_instances) = 1
    /\ target_instances[1].target = additional_items[1].target
    /\ data_dict.sentiment \in AdditionalLabels
====
